---- MODULE Spec2Model ----
(***************************************************************************)
(* The canvas particle field of script.js (lines 92-159): the canvas, the  *)
(* population built by createParticles, the per-frame drawParticles loop,  *)
(* and the two host signals it reads (window resize, document mousemove).  *)
(*                                                                         *)
(* JavaScript numbers are doubles.  The model keeps them as fixed-point    *)
(* integers: lengths in 1/PX pixel, opacities in 1/AU, angles in 1/RU      *)
(* radian, parallax factors in 1/PAR.  The units are chosen so that every  *)
(* value createParticles can produce from a Math.random() result k/RandDen *)
(* is an exact integer.                                                    *)
(***************************************************************************)
EXTENDS Integers, Sequences, FiniteSets

VARIABLES
  pc,          \* "load" before the script ran, "running" after line 159
  canvasW,     \* canvas.width  (pixels)
  canvasH,     \* canvas.height (pixels)
  mouseX,      \* mouseX (line 43), pixels
  mouseY,      \* mouseY (line 43), pixels
  particles,   \* the particles array (line 99)
  frame,       \* the ctx calls of the latest drawParticles run, in order
  rafPending,  \* pending requestAnimationFrame(drawParticles) callbacks
  ticks,       \* drawParticles runs started by the frame scheduler
  resizes,     \* resize events delivered
  probe,       \* one Dust particle and a canvas size, for the dust step alone
  theme,       \* the theme section (lines 28-39): body class, icon, storage
  cursor,      \* the cursor follower (lines 41-58): fx, fy, style.transform
  typer        \* the typewriter (lines 69-90): wIdx, ch, direction, text

vars == <<pc, canvasW, canvasH, mouseX, mouseY, particles, frame, rafPending,
          ticks, resizes, probe, theme, cursor, typer>>

(***************************************************************************)
(* Bounds of the exploration.                                              *)
(***************************************************************************)
MaxTicks == 3
MaxResizes == 2

(***************************************************************************)
(* Fixed-point units.                                                      *)
(***************************************************************************)
PX == 8000
AU == 10000
RU == 16000
PAR == 100
\* Math.PI in 1/RU radian
PI_RU == 50265

(***************************************************************************)
(* Math.random(): a generator with an unknown seed.  Each call advances    *)
(* the generator and returns k/RandDen for some k in 0..RandDen-1, so the  *)
(* result lies in [0,1).                                                   *)
(***************************************************************************)
RandDen == 80
LcgMod == 32768
LcgMul == 25173
LcgInc == 13849

\* the generator's step taken n times is again s -> (a*s + c) % LcgMod
RECURSIVE lcgJump(_)
lcgJump(n) ==
  IF n = 0 THEN [a |-> 1, c |-> 0]
  ELSE IF n % 2 = 0
       THEN LET half == lcgJump(n \div 2)
            IN  [a |-> (half.a * half.a) % LcgMod,
                 c |-> (half.a * half.c + half.c) % LcgMod]
       ELSE LET rest == lcgJump(n - 1)
            IN  [a |-> (LcgMul * rest.a) % LcgMod,
                 c |-> (LcgMul * rest.c + LcgInc) % LcgMod]

\* the results of the first n calls, as numerators k of k/RandDen
MathRandom(seed, n) ==
  [i \in 1..n |->
     LET j == lcgJump(i)
     IN  (((j.a * seed + j.c) % LcgMod) * RandDen) \div LcgMod]

Seeds == {16, 42}

(***************************************************************************)
(* Viewport sizes the host reports (innerWidth, innerHeight) and pointer   *)
(* positions (clientX, clientY).                                           *)
(***************************************************************************)
LoadSizes == {<<1400, 800>>, <<2800, 1600>>, <<0, 0>>, <<0, 800>>}
ResizeSizes == {<<1400, 800>>, <<2800, 1600>>, <<600, 400>>, <<0, 0>>}
Pointers == {<<0, 0>>, <<700, 400>>, <<1400, 800>>}

(***************************************************************************)
(* createParticles (lines 100-125).                                        *)
(***************************************************************************)
MinDots == 30
MinStars == 70
DotArea == 140000
StarArea == 60000

Max(a, b) == IF a >= b THEN a ELSE b
Min(a, b) == IF a <= b THEN a ELSE b

\* line 104 without Math.max
dotCountNoFloor(w, h) == (w * h) \div DotArea

dotCount(w, h) == Max(MinDots, (w * h) \div DotArea)
starCount(w, h) == Max(MinStars, (w * h) \div StarArea)

\* line 109: the six Math.random() results of one dot, in evaluation order
newDot(k, w, h) ==
  [type  |-> "dot",
   x     |-> (k[1] * w * PX) \div RandDen,
   y     |-> (k[2] * h * PX) \div RandDen,
   vx    |-> ((2 * k[3] - RandDen) * 3 * PX) \div (2 * RandDen * 10),
   vy    |-> ((2 * k[4] - RandDen) * 6 * PX) \div (2 * RandDen * 10),
   r     |-> (k[5] * 2 * PX) \div RandDen + (2 * PX) \div 10,
   alpha |-> (k[6] * 12 * AU) \div (RandDen * 100) + (3 * AU) \div 100]

\* line 120: (Math.random()*0.035) + 0.005
newTwinkleSpeed(k) == (k * 35 * RU) \div (RandDen * 1000) + (5 * RU) \div 1000

\* lines 114-123 with the parallax factor drawn from [0.4, 1.2)
newStarWideParallax(k, w, h) ==
  [type         |-> "star",
   x            |-> (k[1] * w * PX) \div RandDen,
   y            |-> (k[2] * h * PX) \div RandDen,
   r            |-> (k[3] * 16 * PX) \div (RandDen * 10) + (4 * PX) \div 10,
   twinkle      |-> (k[4] * 2 * PI_RU) \div RandDen,
   twinkleSpeed |-> newTwinkleSpeed(k[5]),
   baseAlpha    |-> (k[6] * 8 * AU) \div (RandDen * 10) + (15 * AU) \div 100,
   parallax     |-> (k[7] * 8 * PAR) \div (RandDen * 10) + (4 * PAR) \div 10]

\* lines 114-123: the seven Math.random() results of one star, in order
newStar(k, w, h) ==
  [type         |-> "star",
   x            |-> (k[1] * w * PX) \div RandDen,
   y            |-> (k[2] * h * PX) \div RandDen,
   r            |-> (k[3] * 16 * PX) \div (RandDen * 10) + (4 * PX) \div 10,
   twinkle      |-> (k[4] * 2 * PI_RU) \div RandDen,
   twinkleSpeed |-> newTwinkleSpeed(k[5]),
   baseAlpha    |-> (k[6] * 8 * AU) \div (RandDen * 10) + (15 * AU) \div 100,
   parallax     |-> (k[7] * 8 * PAR) \div (RandDen * 10) + (2 * PAR) \div 10]

\* the two loops of createParticles in the other order
pushOrderStarsFirst(dots, stars) == stars \o dots

\* lines 108-110 then 113-124: first every dot is pushed, then every star
pushOrder(dots, stars) == dots \o stars

\* (the generator's results, like the array below in drawParticles, are bound
\* as the element of a one-element set: a value computed once)
createParticles(seed, w, h) ==
  LET nd == dotCount(w, h)
      ns == starCount(w, h)
      dots(rnd) == [i \in 1..nd |->
                 newDot([j \in 1..6 |-> rnd[6 * (i - 1) + j]], w, h)]
      stars(rnd) == [i \in 1..ns |->
                 newStar([j \in 1..7 |-> rnd[6 * nd + 7 * (i - 1) + j]], w, h)]
  IN  CHOOSE made \in {pushOrder(dots(rnd), stars(rnd)) :
                         rnd \in {MathRandom(seed, 6 * nd + 7 * ns)}} : TRUE

(***************************************************************************)
(* drawParticles (lines 128-158), one particle at a time.                  *)
(***************************************************************************)
WrapMargin == 50
WrapInset == 20
ParallaxGain == 30

\* lines 135-139 without the high-side test (lines 137, 139)
wrapAxisNoHighEdge(pos, vel, size) ==
  LET p1 == pos + vel
  IN  IF p1 < -(WrapMargin * PX) THEN size * PX + WrapInset * PX ELSE p1

\* lines 135-139 with the low-side target beyond the high-side margin
wrapAxisFarTarget(pos, vel, size) ==
  LET p1 == pos + vel
      p2 == IF p1 < -(WrapMargin * PX)
            THEN size * PX + (WrapMargin + WrapInset) * PX ELSE p1
  IN  IF p2 > size * PX + WrapMargin * PX THEN -(WrapInset * PX) ELSE p2

\* lines 135-139 on one axis: integrate, then the low-side test, then the
\* high-side test on the value the low-side test left
wrapAxis(pos, vel, size) ==
  LET p1 == pos + vel
      p2 == IF p1 < -(WrapMargin * PX) THEN size * PX + WrapInset * PX ELSE p1
  IN  IF p2 > size * PX + WrapMargin * PX THEN -(WrapInset * PX) ELSE p2

\* lines 138-139 testing against canvas.width instead of canvas.height
moveDotWidthOnly(p, w, h) ==
  [p EXCEPT !.x = wrapAxis(p.x, p.vx, w), !.y = wrapAxis(p.y, p.vy, w)]

moveDot(p, w, h) ==
  [p EXCEPT !.x = wrapAxis(p.x, p.vx, w), !.y = wrapAxis(p.y, p.vy, h)]

\* line 143 keeping the phase within one turn
advanceTwinkleWrapped(phase, speed) == (phase + speed) % (2 * PI_RU)

\* line 143
advanceTwinkle(phase, speed) == phase + speed

\* line 143 followed by a write of the displaced position back to the star
twinkleStarDrift(p) ==
  [p EXCEPT !.twinkle = advanceTwinkle(p.twinkle, p.twinkleSpeed),
            !.x = p.x + p.parallax]

twinkleStar(p) ==
  [p EXCEPT !.twinkle = advanceTwinkle(p.twinkle, p.twinkleSpeed)]

\* Math.abs(Math.sin(phase)) in 1/AU, line 144: |sin| has period pi, and on
\* [0, pi] sin x is 16x(pi-x) / (5pi^2 - 4x(pi-x)) to within 0.002
absSin(phase) ==
  LET PIm == (PI_RU * 1000) \div RU
      xm  == ((phase % PI_RU) * 1000) \div RU
      pk  == (xm * (PIm - xm)) \div 1000
      Pk  == (PIm * PIm) \div 1000
  IN  (16 * pk * AU) \div (5 * Pk - 4 * pk)

\* line 145 without Math.min
clampAlphaNone(a) == a

\* line 145
clampAlpha(a) == Min(AU, a)

starAlpha(p) == clampAlpha(p.baseAlpha + (absSin(p.twinkle) * 6) \div 10)

\* lines 148-149 without the - 0.5
parallaxOffsetNoCentre(m, size, par) ==
  IF size = 0 THEN [fin |-> FALSE, v |-> 0]
  ELSE [fin |-> TRUE,
        v   |-> ((2 * m) * (ParallaxGain \div 2) * (PX \div PAR) * par)
                  \div size]

\* lines 148-149 on one axis: (m / size - 0.5) * 30 * parallax.  A division
\* by a zero canvas size gives Infinity or NaN: fin is FALSE
parallaxOffset(m, size, par) ==
  IF size = 0 THEN [fin |-> FALSE, v |-> 0]
  ELSE [fin |-> TRUE,
        v   |-> ((2 * m - size) * (ParallaxGain \div 2) * (PX \div PAR) * par)
                  \div size]

\* line 130
clearOp(w, h) ==
  [op |-> "clearRect", kind |-> "clear", i |-> 0, x |-> 0, y |-> 0,
   r |-> 0, a |-> 0, fin |-> TRUE, w |-> w, h |-> h]

arcOp(kind, i, x, y, r, a, fin) ==
  [op |-> "arc", kind |-> kind, i |-> i, x |-> x, y |-> y, r |-> r, a |-> a,
   fin |-> fin, w |-> 0, h |-> 0]

\* line 140
dotOps(p, i) == <<arcOp("dot", i, p.x, p.y, p.r, p.alpha, TRUE)>>

\* lines 152-153: the inner disc, then the outer disc
starOps(p, i, w, h, mx, my) ==
  LET a  == starAlpha(p)
      px == parallaxOffset(mx, w, p.parallax)
      py == parallaxOffset(my, h, p.parallax)
      ok == px.fin /\ py.fin
  IN  << arcOp("star", i, p.x + px.v, p.y + py.v, (p.r * 11) \div 10, a, ok),
         arcOp("star", i, p.x + px.v, p.y + py.v, (p.r * 26) \div 10,
               (a * 6) \div 10, ok) >>

\* lines 134-154: what one loop iteration does to particle p
stepParticle(p, w, h) ==
  IF p.type = "dot" THEN moveDot(p, w, h)
  ELSE IF p.type = "star" THEN twinkleStar(p)
  ELSE p

particleOps(p, i, w, h, mx, my) ==
  IF p.type = "dot" THEN dotOps(p, i)
  ELSE IF p.type = "star" THEN starOps(p, i, w, h, mx, my)
  ELSE << >>

\* the ctx calls of the loop for particles lo..hi, in array order
RECURSIVE allOps(_, _, _, _, _, _, _)
allOps(ps, lo, hi, w, h, mx, my) ==
  IF lo > hi THEN << >>
  ELSE IF lo = hi THEN particleOps(ps[lo], lo, w, h, mx, my)
  ELSE LET mid == (lo + hi) \div 2
       IN  allOps(ps, lo, mid, w, h, mx, my)
             \o allOps(ps, mid + 1, hi, w, h, mx, my)

\* drawParticles without line 157
requestFrameNone(pending) == pending

\* line 157 issued twice
requestFrameTwice(pending) == pending + 2

\* line 157: the requests pending once the callback being run (already taken
\* off the scheduler's list) has asked for the next frame
requestFrame(pending) == pending + 1

\* lines 128-158 removing a dot that left the canvas instead of wrapping it
drawParticlesCulling(ps, w, h, mx, my) ==
  CHOOSE d \in
    {[particles |-> moved,
      frame     |-> <<clearOp(w, h)>> \o allOps(moved, 1, Len(moved), w, h, mx, my)] :
       moved \in {[i \in 1..Len(kept) |-> stepParticle(kept[i], w, h)] :
                     kept \in {SelectSeq(ps, LAMBDA p :
                                  \/ p.type # "dot"
                                  \/ /\ p.x + p.vx <= (w + WrapMargin) * PX
                                     /\ p.y + p.vy <= (h + WrapMargin) * PX)}}} : TRUE

\* lines 128-158: the array after the loop and the ctx calls in order
drawParticles(ps, w, h, mx, my) ==
  CHOOSE d \in
    {[particles |-> moved,
      frame     |-> <<clearOp(w, h)>> \o allOps(moved, 1, Len(moved), w, h, mx, my)] :
       moved \in {[i \in 1..Len(old) |-> stepParticle(old[i], w, h)] :
                     old \in {ps}}} : TRUE

(***************************************************************************)
(* The dust step on its own: one Dust particle that a run can hold at the  *)
(* start of a frame (never below the low margin, since every frame ends    *)
(* with the coordinate at or above it; beyond the high margin after the    *)
(* canvas shrank), and a canvas size.                                      *)
(***************************************************************************)
ProbeSizes == {<<1400, 800>>, <<600, 400>>, <<0, 0>>}
ProbeOffsets(size) ==
  { -(WrapMargin * PX), -(WrapMargin * PX) + 10, -(WrapInset * PX), 0,
    size * PX + WrapInset * PX, size * PX + WrapMargin * PX,
    size * PX + (WrapMargin + 10) * PX }
ProbeVx == {newDot(<<0, 0, k, 0, 0, 0>>, 0, 0).vx : k \in {0, 39, 40, 79}}
ProbeVy == {newDot(<<0, 0, 0, k, 0, 0>>, 0, 0).vy : k \in {0, 40, 79}}

NoProbe == [p |-> [type |-> "dot", x |-> 0, y |-> 0, vx |-> 0, vy |-> 0,
                   r |-> 0, alpha |-> 0],
            w |-> 0, h |-> 0, done |-> FALSE,
            out |-> [type |-> "dot", x |-> 0, y |-> 0, vx |-> 0, vy |-> 0,
                     r |-> 0, alpha |-> 0],
            done2 |-> FALSE,
            out2 |-> [type |-> "dot", x |-> 0, y |-> 0, vx |-> 0, vy |-> 0,
                      r |-> 0, alpha |-> 0]]

(***************************************************************************)
(* The theme section (lines 28-39).  The page markup is not part of the    *)
(* script: the body element is taken to come without the 'light' class     *)
(* and the toggle to show the moon.                                        *)
(***************************************************************************)
MaxClicks == 6
MaxReloads == 4
MarkupBodyLight == FALSE
MarkupIcon == "moon"
\* localStorage.getItem('theme'): "null" on a first visit
SavedThemes == {"null", "light", "dark"}

\* lines 31-33 on the body and toggle of a freshly parsed page
themeOnLoad(saved) ==
  LET light == IF saved = "light" THEN TRUE ELSE MarkupBodyLight
  IN  [bodyLight |-> light, icon |-> IF light THEN "sun" ELSE MarkupIcon]

\* lines 35-39 without the localStorage.setItem of line 37
themeOnClickNoStore(t) ==
  LET nowLight == ~t.bodyLight
  IN  [t EXCEPT !.bodyLight = nowLight,
                !.icon = IF nowLight THEN "sun" ELSE "moon"]

\* lines 35-39
themeOnClick(t) ==
  LET nowLight == ~t.bodyLight
  IN  [t EXCEPT !.bodyLight = nowLight,
                !.stored = IF nowLight THEN "light" ELSE "dark",
                !.icon = IF nowLight THEN "sun" ELSE "moon"]

ThemeStart(saved) ==
  [phase |-> "load", bodyLight |-> MarkupBodyLight, icon |-> MarkupIcon,
   stored |-> saved, clicks |-> 0, reloads |-> 0, last |-> "none"]

(***************************************************************************)
(* The cursor follower (lines 41-58).  style.transform is kept as the      *)
(* translate(fx, fy) it was last written with and the number of            *)
(* ' scale(1.45)' pieces after it; it is the empty string before line 48   *)
(* first runs.                                                             *)
(***************************************************************************)
CursorStart ==
  [phase |-> "load", fx |-> 0, fy |-> 0,
   transform |-> [set |-> FALSE, x |-> 0, y |-> 0, scales |-> 0],
   hover |-> FALSE, pending |-> 0, frames |-> 0]

(***************************************************************************)
(* The typewriter (lines 69-90).  A string is a sequence of characters.    *)
(***************************************************************************)
words == <<
  <<"I", " ", "b", "u", "i", "l", "d", " ", "w", "i", "t", "h", " ", "c",
    "u", "r", "i", "o", "s", "i", "t", "y", ".">>,
  <<"I", " ", "e", "x", "p", "l", "o", "r", "e", " ", "c", "o", "d", "e",
    " ", "&", " ", "d", "e", "s", "i", "g", "n", ".">>,
  <<"I", " ", "l", "o", "v", "e", " ", "d", "r", "a", "w", "i", "n", "g",
    " ", "a", "n", "d", " ", "d", "i", "s", "c", "o", "v", "e", "r", "i",
    "n", "g", " ", "b", "e", "a", "c", "h", "e", "s", ".">>
>>

TyperStart ==
  [phase |-> "load", wIdx |-> 0, ch |-> 0, direction |-> 1, text |-> << >>,
   timers |-> << >>]

(***************************************************************************)
(* The state before the script runs: mouseX = mouseY = 0 (line 43), an     *)
(* empty particles array (line 99), a canvas of the HTML default size.     *)
(***************************************************************************)
Init ==
  /\ pc = "load"
  /\ canvasW = 300
  /\ canvasH = 150
  /\ mouseX = 0
  /\ mouseY = 0
  /\ particles = << >>
  /\ frame = << >>
  /\ rafPending = 0
  /\ ticks = 0
  /\ resizes = 0
  /\ probe = NoProbe
  /\ theme = ThemeStart("null")
  /\ cursor = CursorStart
  /\ typer = TyperStart

\* line 95
resizeCanvas(size) == [width |-> size[1], height |-> size[2]]

\* the load script with drawParticles() (line 159) run before
\* createParticles() (line 126)
ScriptLoadDrawFirst(size, seed) ==
  /\ pc = "load"
  /\ \E c \in {resizeCanvas(size)} :
     \E d \in {drawParticles(particles, c.width, c.height, mouseX, mouseY)} :
         /\ canvasW' = c.width
         /\ canvasH' = c.height
         /\ particles' = createParticles(seed, c.width, c.height)
         /\ frame' = d.frame
  /\ rafPending' = requestFrame(rafPending)
  /\ pc' = "running"
  /\ UNCHANGED <<mouseX, mouseY, ticks, resizes, probe, theme, cursor, typer>>

\* lines 95-159, run once, top to bottom: resizeCanvas(), createParticles(),
\* drawParticles()
ScriptLoad(size, seed) ==
  /\ pc = "load"
  /\ \E c \in {resizeCanvas(size)} :
     \E d \in {drawParticles(createParticles(seed, c.width, c.height),
                              c.width, c.height, mouseX, mouseY)} :
         /\ canvasW' = c.width
         /\ canvasH' = c.height
         /\ particles' = d.particles
         /\ frame' = d.frame
  /\ rafPending' = requestFrame(rafPending)
  /\ pc' = "running"
  /\ UNCHANGED <<mouseX, mouseY, ticks, resizes, probe, theme, cursor, typer>>

\* line 96: the resize listener is resizeCanvas alone
Resize(size) ==
  /\ pc = "running"
  /\ resizes < MaxResizes
  /\ canvasW' = resizeCanvas(size).width
  /\ canvasH' = resizeCanvas(size).height
  /\ resizes' = resizes + 1
  /\ UNCHANGED <<pc, mouseX, mouseY, particles, frame, rafPending, ticks, probe,
                 theme, cursor, typer>>

\* line 44
MouseMove(pt) ==
  /\ pc = "running"
  /\ <<mouseX, mouseY>> # pt
  /\ mouseX' = pt[1]
  /\ mouseY' = pt[2]
  /\ UNCHANGED <<pc, canvasW, canvasH, particles, frame, rafPending, ticks,
                 resizes, probe, theme, cursor, typer>>

\* the frame scheduler runs one pending drawParticles callback
Tick ==
  /\ pc = "running"
  /\ rafPending > 0
  /\ ticks < MaxTicks
  /\ \E d \in {drawParticles(particles, canvasW, canvasH, mouseX, mouseY)} :
         /\ particles' = d.particles
         /\ frame' = d.frame
  /\ rafPending' = requestFrame(rafPending - 1)
  /\ ticks' = ticks + 1
  /\ UNCHANGED <<pc, canvasW, canvasH, mouseX, mouseY, resizes, probe, theme,
                 cursor, typer>>

Next ==
  \/ \E size \in LoadSizes, seed \in Seeds : ScriptLoad(size, seed)
  \/ \E size \in ResizeSizes : Resize(size)
  \/ \E pt \in Pointers : MouseMove(pt)
  \/ Tick

Spec == Init /\ [][Next]_vars

\* the host's frame scheduler runs a requested callback at the next display
\* refresh: a pending drawParticles callback is not postponed for ever
\* the viewport sizes, pointer positions and seed explored with it
FairLoadSizes == {<<1400, 800>>, <<2800, 1600>>}
FairResizeSizes == {<<600, 400>>, <<0, 0>>}
FairPointers == {<<0, 0>>, <<700, 400>>}
FairSeeds == {16}

NextFair ==
  \/ \E size \in FairLoadSizes, seed \in FairSeeds : ScriptLoad(size, seed)
  \/ \E size \in FairResizeSizes : Resize(size)
  \/ \E pt \in FairPointers : MouseMove(pt)
  \/ Tick

SpecFair == Init /\ [][NextFair]_vars /\ WF_vars(Tick)

(***************************************************************************)
(* The specification of the dust step alone.                               *)
(***************************************************************************)
InitDust ==
  /\ pc = "load"
  /\ canvasW = 300
  /\ canvasH = 150
  /\ mouseX = 0
  /\ mouseY = 0
  /\ particles = << >>
  /\ frame = << >>
  /\ rafPending = 0
  /\ ticks = 0
  /\ resizes = 0
  /\ \E size \in ProbeSizes :
       \E x \in ProbeOffsets(size[1]), y \in ProbeOffsets(size[2]),
          vx \in ProbeVx, vy \in ProbeVy :
         probe = [NoProbe EXCEPT !.p.x = x, !.p.y = y, !.p.vx = vx,
                                 !.p.vy = vy, !.w = size[1], !.h = size[2]]
  /\ theme = ThemeStart("null")
  /\ cursor = CursorStart
  /\ typer = TyperStart

ProbeStep ==
  /\ ~probe.done
  /\ probe' = [probe EXCEPT !.out = moveDot(probe.p, probe.w, probe.h),
                            !.done = TRUE]
  /\ UNCHANGED <<pc, canvasW, canvasH, mouseX, mouseY, particles, frame,
                 rafPending, ticks, resizes, theme, cursor, typer>>

\* lines 135-139 again on the next frame, canvas size unchanged
ProbeStep2 ==
  /\ probe.done /\ ~probe.done2
  /\ probe' = [probe EXCEPT !.out2 = moveDot(probe.out, probe.w, probe.h),
                            !.done2 = TRUE]
  /\ UNCHANGED <<pc, canvasW, canvasH, mouseX, mouseY, particles, frame,
                 rafPending, ticks, resizes, theme, cursor, typer>>

NextDust == ProbeStep \/ ProbeStep2

SpecDust == InitDust /\ [][NextDust]_vars

(***************************************************************************)
(* The specification of the theme section alone: the page is loaded with   *)
(* any stored value, the toggle is clicked, the page is reloaded.          *)
(* theme.last names the latest of these.                                   *)
(***************************************************************************)
InitTheme ==
  /\ pc = "load"
  /\ canvasW = 300
  /\ canvasH = 150
  /\ mouseX = 0
  /\ mouseY = 0
  /\ particles = << >>
  /\ frame = << >>
  /\ rafPending = 0
  /\ ticks = 0
  /\ resizes = 0
  /\ probe = NoProbe
  /\ \E saved \in SavedThemes : theme = ThemeStart(saved)
  /\ cursor = CursorStart
  /\ typer = TyperStart

\* lines 31-33 on the first load of the page
ThemeLoad ==
  /\ theme.phase = "load"
  /\ theme' = [theme EXCEPT !.phase = "running",
                            !.bodyLight = themeOnLoad(theme.stored).bodyLight,
                            !.icon = themeOnLoad(theme.stored).icon,
                            !.last = "load"]
  /\ UNCHANGED <<pc, canvasW, canvasH, mouseX, mouseY, particles, frame,
                 rafPending, ticks, resizes, probe, cursor, typer>>

\* lines 35-39: one click on the toggle
ThemeClick ==
  /\ theme.phase = "running"
  /\ theme.clicks < MaxClicks
  /\ theme' = [themeOnClick(theme) EXCEPT !.clicks = theme.clicks + 1,
                                          !.last = "click"]
  /\ UNCHANGED <<pc, canvasW, canvasH, mouseX, mouseY, particles, frame,
                 rafPending, ticks, resizes, probe, cursor, typer>>

\* a reload: the document is parsed afresh, localStorage is kept, and
\* lines 31-33 run again
ThemeReload ==
  /\ theme.phase = "running"
  /\ theme.reloads < MaxReloads
  /\ theme' = [theme EXCEPT !.bodyLight = themeOnLoad(theme.stored).bodyLight,
                            !.icon = themeOnLoad(theme.stored).icon,
                            !.reloads = theme.reloads + 1,
                            !.last = "reload"]
  /\ UNCHANGED <<pc, canvasW, canvasH, mouseX, mouseY, particles, frame,
                 rafPending, ticks, resizes, probe, cursor, typer>>

NextTheme == ThemeLoad \/ ThemeClick \/ ThemeReload

SpecTheme == InitTheme /\ [][NextTheme]_vars

(***************************************************************************)
(* The specification of the cursor follower alone: the pointer moves, the  *)
(* frame scheduler runs followLoop, the pointer enters and leaves one      *)
(* interactive element.  cursor.hover says the pointer is over it.         *)
(***************************************************************************)
MaxFollowFrames == 3
\* the easing factor 0.14 of lines 46-47, in hundredths
FollowGain == 14

\* lines 46-47 on one axis, target in pixels
followEase(pos, target) == pos + ((target * PX - pos) * FollowGain) \div 100

\* lines 45-50: ease, overwrite style.transform, request the next frame
followLoop(c, mx, my) ==
  LET nfx == followEase(c.fx, mx)
      nfy == followEase(c.fy, my)
  IN  [c EXCEPT !.fx = nfx, !.fy = nfy,
                !.transform = [set |-> TRUE, x |-> nfx, y |-> nfy,
                               scales |-> 0],
                !.pending = c.pending + 1]

\* line 55: style.transform += ' scale(1.45)'
followerEnter(c) ==
  [c EXCEPT !.transform.scales = c.transform.scales + 1]

\* line 56: String.replace drops the first ' scale(1.45)', if there is one
followerLeave(c) ==
  [c EXCEPT !.transform.scales = Max(c.transform.scales - 1, 0)]

\* line 51: the script calls followLoop() once
CursorLoad ==
  /\ cursor.phase = "load"
  /\ cursor' = [followLoop(cursor, mouseX, mouseY) EXCEPT !.phase = "running"]
  /\ UNCHANGED <<pc, canvasW, canvasH, mouseX, mouseY, particles, frame,
                 rafPending, ticks, resizes, probe, theme, typer>>

\* line 44, with the follower running
CursorMouseMove(pt) ==
  /\ cursor.phase = "running"
  /\ <<mouseX, mouseY>> # pt
  /\ mouseX' = pt[1]
  /\ mouseY' = pt[2]
  /\ UNCHANGED <<pc, canvasW, canvasH, particles, frame, rafPending, ticks,
                 resizes, probe, theme, cursor, typer>>

\* the frame scheduler runs one pending followLoop callback
CursorFrame ==
  /\ cursor.phase = "running"
  /\ cursor.pending > 0
  /\ cursor.frames < MaxFollowFrames
  /\ cursor' = [followLoop([cursor EXCEPT !.pending = cursor.pending - 1],
                           mouseX, mouseY)
                  EXCEPT !.frames = cursor.frames + 1]
  /\ UNCHANGED <<pc, canvasW, canvasH, mouseX, mouseY, particles, frame,
                 rafPending, ticks, resizes, probe, theme, typer>>

\* line 55: mouseenter on an interactive element
CursorEnter ==
  /\ cursor.phase = "running"
  /\ ~cursor.hover
  /\ cursor' = [followerEnter(cursor) EXCEPT !.hover = TRUE]
  /\ UNCHANGED <<pc, canvasW, canvasH, mouseX, mouseY, particles, frame,
                 rafPending, ticks, resizes, probe, theme, typer>>

\* line 56: the matching mouseleave
CursorLeave ==
  /\ cursor.phase = "running"
  /\ cursor.hover
  /\ cursor' = [followerLeave(cursor) EXCEPT !.hover = FALSE]
  /\ UNCHANGED <<pc, canvasW, canvasH, mouseX, mouseY, particles, frame,
                 rafPending, ticks, resizes, probe, theme, typer>>

NextCursor ==
  \/ CursorLoad
  \/ \E pt \in Pointers : CursorMouseMove(pt)
  \/ CursorFrame
  \/ CursorEnter
  \/ CursorLeave

SpecCursor == Init /\ [][NextCursor]_vars

(***************************************************************************)
(* The specification of the typewriter alone.  typer.timers holds the      *)
(* delays of the pending setTimeout(typeLoop, ...) calls; a pending timer  *)
(* eventually fires.                                                       *)
(***************************************************************************)
HoldDelay == 1000
TypeDelay == 90
EraseDelay == 30

\* String.prototype.slice(0, e): a negative e counts from the end
slice(str, e) ==
  IF e >= 0 THEN SubSeq(str, 1, Min(e, Len(str)))
  ELSE SubSeq(str, 1, Max(Len(str) + e, 0))

\* lines 77-89 with line 86 leaving wIdx alone
typeLoopSameWord(t) ==
  LET word == words[t.wIdx + 1]
  IN  IF t.direction = 1
      THEN LET ch1 == t.ch + 1
           IN  IF ch1 >= Len(word)
               THEN [t EXCEPT !.ch = ch1, !.text = slice(word, ch1),
                              !.direction = -1,
                              !.timers = Append(t.timers, HoldDelay)]
               ELSE [t EXCEPT !.ch = ch1, !.text = slice(word, ch1),
                              !.timers = Append(t.timers, TypeDelay)]
      ELSE LET ch1 == t.ch - 1
           IN  IF ch1 <= 0
               THEN [t EXCEPT !.ch = ch1, !.text = slice(word, ch1),
                              !.direction = 1,
                              !.timers = Append(t.timers, TypeDelay)]
               ELSE [t EXCEPT !.ch = ch1, !.text = slice(word, ch1),
                              !.timers = Append(t.timers, EraseDelay)]

\* lines 77-89: one run of typeLoop
typeLoop(t) ==
  LET word == words[t.wIdx + 1]
  IN  IF t.direction = 1
      THEN LET ch1 == t.ch + 1
           IN  IF ch1 >= Len(word)
               THEN [t EXCEPT !.ch = ch1, !.text = slice(word, ch1),
                              !.direction = -1,
                              !.timers = Append(t.timers, HoldDelay)]
               ELSE [t EXCEPT !.ch = ch1, !.text = slice(word, ch1),
                              !.timers = Append(t.timers, TypeDelay)]
      ELSE LET ch1 == t.ch - 1
           IN  IF ch1 <= 0
               THEN [t EXCEPT !.ch = ch1, !.text = slice(word, ch1),
                              !.direction = 1,
                              !.wIdx = (t.wIdx + 1) % Len(words),
                              !.timers = Append(t.timers, TypeDelay)]
               ELSE [t EXCEPT !.ch = ch1, !.text = slice(word, ch1),
                              !.timers = Append(t.timers, EraseDelay)]

\* the pending timers without the i-th
dropTimer(timers, i) ==
  SubSeq(timers, 1, i - 1) \o SubSeq(timers, i + 1, Len(timers))

\* line 90: the script calls typeLoop() once
TypeLoad ==
  /\ typer.phase = "load"
  /\ typer' = [typeLoop(typer) EXCEPT !.phase = "running"]
  /\ UNCHANGED <<pc, canvasW, canvasH, mouseX, mouseY, particles, frame,
                 rafPending, ticks, resizes, probe, theme, cursor>>

\* a pending timer fires and runs typeLoop
TypeFire ==
  /\ typer.phase = "running"
  /\ \E i \in DOMAIN typer.timers :
       typer' = typeLoop([typer EXCEPT !.timers = dropTimer(typer.timers, i)])
  /\ UNCHANGED <<pc, canvasW, canvasH, mouseX, mouseY, particles, frame,
                 rafPending, ticks, resizes, probe, theme, cursor>>

NextType == TypeLoad \/ TypeFire

SpecType == Init /\ [][NextType]_vars /\ WF_vars(TypeLoad) /\ WF_vars(TypeFire)

(***************************************************************************)
(* Vocabulary of the properties.                                           *)
(***************************************************************************)
Dots == {i \in DOMAIN particles : particles[i].type = "dot"}
Stars == {i \in DOMAIN particles : particles[i].type = "star"}
StarArcs == {k \in DOMAIN frame : frame[k].kind = "star"}
DotArcs == {k \in DOMAIN frame : frame[k].kind = "dot"}
Running == pc = "running"
\* the step is one run of drawParticles by the frame scheduler
TickStep == ticks' = ticks + 1
\* the step is one resize event
ResizeStep == resizes' = resizes + 1
\* the step is one mousemove event
PointerStep == <<mouseX, mouseY>>' # <<mouseX, mouseY>>

(***************************************************************************)
(* C1.  Once a resize has happened, the field holds exactly                *)
(* max(30, floor(A/140000)) Dust and max(70, floor(A/60000)) Star          *)
(* particles, A being the area of the current canvas.                      *)
(* The resize listener only sets the canvas size; the population is the    *)
(* one made at load, so the statement fails after a resize to another area.*)
(***************************************************************************)
C1_CountsFollowResize ==
  (Running /\ resizes > 0) =>
    LET area == canvasW * canvasH
    IN  /\ Cardinality(Dots)
             = (IF area \div 140000 > 30 THEN area \div 140000 ELSE 30)
        /\ Cardinality(Stars)
             = (IF area \div 60000 > 70 THEN area \div 60000 ELSE 70)

(***************************************************************************)
(* C2.  Immediately after a resize to a canvas with width, height > 0,     *)
(* every particle (Dust position, Star anchor) lies in                     *)
(* [0,width) x [0,height) of the new canvas.                               *)
(* The population is not regenerated by a resize, so after the canvas      *)
(* shrinks particles lie outside it.                                       *)
(***************************************************************************)
C2_InsideAfterResize ==
  [][(ResizeStep /\ canvasW' > 0 /\ canvasH' > 0) =>
       \A i \in DOMAIN particles' :
         /\ 0 <= particles'[i].x /\ particles'[i].x < canvasW' * PX
         /\ 0 <= particles'[i].y /\ particles'[i].y < canvasH' * PX]_vars

(***************************************************************************)
(* C3.  At the end of every run of drawParticles each Dust coordinate lies *)
(* within [-50, size+50] of the canvas size of that run, and a coordinate  *)
(* that the run wrapped lies within [-20, size+20].                        *)
(***************************************************************************)
C3_Within(v, lo, size, hi) == lo * PX <= v /\ v <= (size + hi) * PX

C3_DustBounded ==
  [][(TickStep \/ pc' # pc) =>
       \A i \in DOMAIN particles' :
         particles'[i].type = "dot" =>
           /\ C3_Within(particles'[i].x, -50, canvasW', 50)
           /\ C3_Within(particles'[i].y, -50, canvasH', 50)
           /\ (TickStep /\ particles'[i].x # particles[i].x + particles[i].vx)
                => C3_Within(particles'[i].x, -20, canvasW', 20)
           /\ (TickStep /\ particles'[i].y # particles[i].y + particles[i].vy)
                => C3_Within(particles'[i].y, -20, canvasH', 20)]_vars

\* after the canvas shrank, a frame wrapped one Dust particle on x and one
\* on y to the low edge (creation gives no negative coordinate)
C3_Witness ==
  /\ Running /\ ticks > 0 /\ resizes > 0
  /\ \E i \in Dots : particles[i].x = -(20 * PX)
  /\ \E i \in Dots : particles[i].y = -(20 * PX)

(***************************************************************************)
(* C4.  One dust step gives, on each axis independently: size+20 if        *)
(* old+velocity < -50; -20 if old+velocity > size+50; otherwise            *)
(* old+velocity.  A particle at x = width+60 with vx = 0 ends at x = -20.  *)
(***************************************************************************)
C4_Expected(old, vel, size) ==
  IF old + vel < -(50 * PX) THEN (size + 20) * PX
  ELSE IF old + vel > (size + 50) * PX THEN -(20 * PX)
  ELSE old + vel

C4_DustStep ==
  probe.done =>
    /\ probe.out.x = C4_Expected(probe.p.x, probe.p.vx, probe.w)
    /\ probe.out.y = C4_Expected(probe.p.y, probe.p.vy, probe.h)
    /\ (probe.p.x = (probe.w + 60) * PX /\ probe.p.vx = 0)
         => probe.out.x = -(20 * PX)

\* x = width+60 with vx = 0 was wrapped to -20 while y was only integrated
C4_Witness ==
  /\ probe.done
  /\ probe.p.x = (probe.w + 60) * PX /\ probe.p.vx = 0
  /\ probe.out.x = -(20 * PX)
  /\ probe.p.vy # 0 /\ probe.out.y = probe.p.y + probe.p.vy

\* the low-side rule fired: old + velocity < -50 went to size + 20
C4_WitnessLow ==
  /\ probe.done
  /\ probe.p.y + probe.p.vy < -(50 * PX)
  /\ probe.out.y = (probe.h + 20) * PX

(***************************************************************************)
(* C5.  Every run of drawParticles by the scheduler increases each Star's  *)
(* twinkle phase by that star's twinkle speed, which is positive; a        *)
(* pointer event never decreases it.                                       *)
(***************************************************************************)
C5_TwinkleIncreases ==
  [][\A i \in DOMAIN particles :
       particles[i].type = "star" =>
         /\ TickStep =>
              /\ particles[i].twinkleSpeed > 0
              /\ particles'[i].twinkle
                   = particles[i].twinkle + particles[i].twinkleSpeed
              /\ particles'[i].twinkle > particles[i].twinkle
         /\ PointerStep => particles'[i].twinkle >= particles[i].twinkle]_vars

\* a phase has accumulated past a full turn, which creation cannot produce
C5_Witness ==
  /\ Running /\ ticks >= 2
  /\ \E i \in Stars : particles[i].twinkle >= 2 * PI_RU

(***************************************************************************)
(* C6.  A tick and a pointer move leave every Star's anchor (x, y)         *)
(* unchanged; a tick changes nothing of a Star but its twinkle phase.      *)
(***************************************************************************)
C6_AnchorImmutable ==
  [][(TickStep \/ PointerStep) =>
       \A i \in DOMAIN particles :
         particles[i].type = "star" =>
           /\ particles'[i].x = particles[i].x
           /\ particles'[i].y = particles[i].y
           /\ [particles'[i] EXCEPT !.twinkle = particles[i].twinkle]
                = particles[i]]_vars

\* a star was drawn away from its anchor (the parallax offset is not zero)
C6_Witness ==
  /\ Running /\ ticks > 0
  /\ \E k \in StarArcs :
       /\ frame[k].fin
       /\ frame[k].x # particles[frame[k].i].x
       /\ frame[k].y # particles[frame[k].i].y

(***************************************************************************)
(* C7.  For every Star of every frame the inner disc's opacity lies in     *)
(* [0,1] and the outer disc's in [0,0.6], the base opacity lying in        *)
(* [0.15, 0.95].                                                           *)
(***************************************************************************)
C7_OpacityInRange ==
  \A k \in StarArcs :
    /\ 0 <= frame[k].a /\ frame[k].a <= AU
    /\ (15 * AU) \div 100 <= particles[frame[k].i].baseAlpha
    /\ particles[frame[k].i].baseAlpha <= (95 * AU) \div 100
    /\ (k + 1 \in StarArcs /\ frame[k + 1].i = frame[k].i) =>
         /\ 0 <= frame[k + 1].a
         /\ frame[k + 1].a <= (6 * AU) \div 10
         /\ frame[k + 1].a = (frame[k].a * 6) \div 10

\* baseAlpha = 0.9 and |sin(phase)| at its peak: the opacity is clamped to 1
C7_Witness ==
  \E k \in StarArcs :
    /\ particles[frame[k].i].baseAlpha = (9 * AU) \div 10
    /\ absSin(particles[frame[k].i].twinkle) >= AU - 10
    /\ frame[k].a = AU
    /\ k + 1 \in StarArcs /\ frame[k + 1].a = (6 * AU) \div 10

(***************************************************************************)
(* C8.  A frame drawn with the pointer at the exact centre of a canvas     *)
(* with width, height > 0 draws every Star at its anchor.                  *)
(***************************************************************************)
C8_CentreNoParallax ==
  [][(TickStep /\ canvasW > 0 /\ canvasH > 0
        /\ 2 * mouseX = canvasW /\ 2 * mouseY = canvasH) =>
       \A k \in DOMAIN frame' :
         frame'[k].kind = "star" =>
           /\ frame'[k].fin
           /\ frame'[k].x = particles'[frame'[k].i].x
           /\ frame'[k].y = particles'[frame'[k].i].y]_vars

\* the latest frame was drawn with the pointer at the centre, and both a
\* strongly and a weakly displaced star sit at their anchors
C8_Witness ==
  /\ Running /\ ticks > 0 /\ canvasW > 0 /\ canvasH > 0
  /\ 2 * mouseX = canvasW /\ 2 * mouseY = canvasH
  /\ frame[1].w = canvasW /\ frame[1].h = canvasH
  /\ \A k \in StarArcs : frame[k].x = particles[frame[k].i].x
                         /\ frame[k].y = particles[frame[k].i].y
  /\ \E i \in Stars : particles[i].parallax >= 90
  /\ \E i \in Stars : particles[i].parallax <= 30

(***************************************************************************)
(* C9.  A frame's ctx calls are: one clear of the full canvas first, then  *)
(* every Dust particle, then every Star; no Star precedes a Dust particle. *)
(***************************************************************************)
C9_DrawOrder ==
  Running =>
    /\ frame[1].op = "clearRect"
    /\ \A k \in DOMAIN frame : frame[k].op = "clearRect" => k = 1
    /\ \A j \in StarArcs : \A k \in DotArcs : k < j
    /\ \A i \in Dots : \E k \in DotArcs : frame[k].i = i
    /\ \A i \in Stars : \E k \in StarArcs : frame[k].i = i

\* a frame drawn after a resize that changed the canvas area class
C9_Witness ==
  /\ Running /\ ticks > 0 /\ resizes > 0
  /\ frame[1].w = canvasW /\ frame[1].h = canvasH
  /\ DotArcs # {} /\ StarArcs # {}
  /\ Cardinality(Dots) > 30

(***************************************************************************)
(* C10.  Every run of drawParticles draws each particle exactly once (one  *)
(* arc per Dust, the two discs per Star) and leaves exactly one frame      *)
(* request pending: never more than one is pending.                        *)
(***************************************************************************)
C10_OneFramePending ==
  Running =>
    /\ rafPending = 1
    /\ Len(frame) = 1 + Cardinality(Dots) + 2 * Cardinality(Stars)
    /\ \A i \in Dots : Cardinality({k \in DotArcs : frame[k].i = i}) = 1
    /\ \A i \in Stars : Cardinality({k \in StarArcs : frame[k].i = i}) = 2

\* several frames ran, interleaved with resize and pointer events
C10_Witness ==
  /\ Running /\ ticks >= 2 /\ resizes >= 1 /\ mouseX # 0
  /\ rafPending = 1

(***************************************************************************)
(* C11.  The field is Uninitialized (no particles) exactly before the      *)
(* script has run and Running (particles exist) after; a tick never adds,  *)
(* removes or changes the kind of a particle, a pointer move changes no    *)
(* particle, and no step of a Running field changes its membership.        *)
(***************************************************************************)
C11_Kinds(ps) == [i \in DOMAIN ps |-> ps[i].type]

C11_PopulationStable ==
  [][/\ (pc = "load") <=> (particles = << >>)
     /\ (pc' = "load") <=> (particles' = << >>)
     /\ pc \in {"load", "running"} /\ pc' \in {"load", "running"}
     /\ TickStep => C11_Kinds(particles') = C11_Kinds(particles)
     /\ PointerStep => particles' = particles
     /\ (C11_Kinds(particles') # C11_Kinds(particles)) => pc = "load"]_vars

\* frames ran after the canvas shrank below the one the population was
\* made for, and a Dust particle was wrapped rather than removed
C11_Witness ==
  /\ Running /\ ticks >= 2 /\ resizes > 0 /\ mouseX # 0
  /\ canvasW < 2800
  /\ Cardinality(Dots) = 32 /\ Cardinality(Stars) = 74
  /\ \E i \in Dots : particles[i].x = -(20 * PX)

(***************************************************************************)
(* C12.  Once Running, a frame request is pending at all times and, the    *)
(* frame scheduler being fair, frames keep being drawn whatever resize and *)
(* pointer events arrive: every frame the exploration allows (MaxTicks of  *)
(* them) is eventually drawn.                                              *)
(***************************************************************************)
C12_FrameLoopNeverStops ==
  /\ [](Running => rafPending > 0)
  /\ Running ~> (ticks = MaxTicks)

\* all the frames were drawn, with resize and pointer events in between
C12_Witness ==
  /\ Running /\ ticks = MaxTicks /\ resizes = MaxResizes
  /\ mouseX # 0 /\ rafPending > 0

(***************************************************************************)
(* C13.  As claimed: on a canvas of zero area the population has the floor *)
(* counts (30 Dust, 70 Stars) and every frame draws all particles at one   *)
(* identical position.                                                     *)
(* It fails at the first frame of a page loaded with a 0 x 0 canvas: every *)
(* particle is created at (0,0), but the frame first adds each Dust        *)
(* particle's velocity, and the Stars' parallax divides by the zero size.  *)
(***************************************************************************)
C13_ZeroAreaOnePosition ==
  (Running /\ frame[1].w * frame[1].h = 0) =>
    /\ Cardinality(Dots) = 30 /\ Cardinality(Stars) = 70
    /\ \A j, k \in DotArcs \cup StarArcs :
         /\ frame[j].fin /\ frame[k].fin
         /\ frame[j].x = frame[k].x /\ frame[j].y = frame[k].y

(***************************************************************************)
(* C13, amended.  A canvas with width = 0 or height = 0 is not an error.   *)
(* The population created at load for such a canvas has the floor counts   *)
(* (30 Dust, 70 Stars), each Star's coordinate on a zero-size axis is 0    *)
(* and each Dust particle's is its velocity after the first frame (0 at    *)
(* creation); and every frame drawn while an axis of the canvas is zero    *)
(* issues the draw calls of every particle, the Dust ones with finite      *)
(* coordinates and the Star ones with non-finite coordinates.              *)
(***************************************************************************)
C13_LoadStep == pc = "load" /\ pc' = "running"

C13_ZeroAreaDegenerate ==
  [][/\ (C13_LoadStep /\ canvasW' * canvasH' = 0) =>
          /\ Cardinality({i \in DOMAIN particles' :
                            particles'[i].type = "dot"}) = 30
          /\ Cardinality({i \in DOMAIN particles' :
                            particles'[i].type = "star"}) = 70
          /\ \A i \in DOMAIN particles' :
               /\ (canvasW' = 0 /\ particles'[i].type = "star")
                    => particles'[i].x = 0
               /\ (canvasH' = 0 /\ particles'[i].type = "star")
                    => particles'[i].y = 0
               /\ (canvasW' = 0 /\ particles'[i].type = "dot")
                    => particles'[i].x = particles'[i].vx
               /\ (canvasH' = 0 /\ particles'[i].type = "dot")
                    => particles'[i].y = particles'[i].vy
     /\ ((C13_LoadStep \/ TickStep) /\ (canvasW' = 0 \/ canvasH' = 0)) =>
          /\ Len(frame') = 1 + Len(particles') +
               Cardinality({i \in DOMAIN particles' :
                              particles'[i].type = "star"})
          /\ \A k \in DOMAIN frame' :
               /\ frame'[k].kind = "dot" => frame'[k].fin
               /\ frame'[k].kind = "star" => ~frame'[k].fin]_vars

\* frames were drawn on the 0 x 0 canvas the page was loaded with: the
\* Stars all have the anchor (0,0), two Dust particles are at different
\* places, and the Star discs have non-finite coordinates
C13_Witness ==
  /\ Running /\ ticks >= 2 /\ resizes = 0
  /\ canvasW = 0 /\ canvasH = 0
  /\ Cardinality(Dots) = 30 /\ Cardinality(Stars) = 70
  /\ \A i \in Stars : particles[i].x = 0 /\ particles[i].y = 0
  /\ \E i, j \in Dots : particles[i].x # particles[j].x
  /\ \A k \in StarArcs : ~frame[k].fin

(***************************************************************************)
(* C17.  In a frame drawn on a canvas with width, height > 0, the parallax *)
(* offset of every Star on an axis where the pointer lies within           *)
(* [0, size] is at most 15 * parallax <= 15 pixels in absolute value; a    *)
(* larger offset occurs only with the pointer outside, and the discs are   *)
(* drawn all the same.                                                     *)
(***************************************************************************)
C17_Abs(v) == IF v < 0 THEN -v ELSE v

\* 15 * parallax pixels, for a parallax factor in 1/PAR
C17_Limit(par) == (15 * PX * par) \div PAR

C17_ParallaxBounded ==
  [][((C13_LoadStep \/ TickStep) /\ canvasW' > 0 /\ canvasH' > 0) =>
       \A k \in DOMAIN frame' :
         frame'[k].kind = "star" =>
           LET star == particles'[frame'[k].i]
           IN  /\ frame'[k].fin
               /\ C17_Limit(star.parallax) <= 15 * PX
               /\ (0 <= mouseX' /\ mouseX' <= canvasW')
                    => C17_Abs(frame'[k].x - star.x) <= C17_Limit(star.parallax)
               /\ (0 <= mouseY' /\ mouseY' <= canvasH')
                    => C17_Abs(frame'[k].y - star.y)
                         <= C17_Limit(star.parallax)]_vars

\* a frame drawn with the pointer on the far corner of the canvas: the
\* offset of a Star is exactly 15 * parallax on both axes
C17_Witness ==
  /\ Running /\ ticks > 0 /\ canvasW > 0 /\ canvasH > 0
  /\ frame[1].w = canvasW /\ frame[1].h = canvasH
  /\ mouseX = canvasW /\ mouseY = canvasH
  /\ \E k \in StarArcs :
       /\ frame[k].x - particles[frame[k].i].x
            = C17_Limit(particles[frame[k].i].parallax)
       /\ frame[k].y - particles[frame[k].i].y
            = C17_Limit(particles[frame[k].i].parallax)
       /\ particles[frame[k].i].parallax >= 90

\* a frame drawn after the canvas shrank under the pointer: the offset of
\* a Star exceeds 15 pixels and the disc is drawn
C17_WitnessOutside ==
  /\ Running /\ ticks > 0 /\ canvasW > 0 /\ canvasH > 0
  /\ frame[1].w = canvasW /\ frame[1].h = canvasH
  /\ mouseX > canvasW
  /\ \E k \in StarArcs :
       frame[k].fin /\ frame[k].x - particles[frame[k].i].x > 15 * PX

(***************************************************************************)
(* C18.  No frame is drawn on an empty population: the first frame (drawn  *)
(* by the load script) already covers a created population, and at the     *)
(* start of every later frame the population holds at least 30 Dust and    *)
(* at least 70 Star particles.                                             *)
(***************************************************************************)
C18_DotsOf(ps) == {i \in DOMAIN ps : ps[i].type = "dot"}
C18_StarsOf(ps) == {i \in DOMAIN ps : ps[i].type = "star"}

C18_NoFrameOnEmpty ==
  [][/\ TickStep =>
          /\ pc = "running"
          /\ Cardinality(C18_DotsOf(particles)) >= 30
          /\ Cardinality(C18_StarsOf(particles)) >= 70
     /\ (C13_LoadStep \/ TickStep) =>
          /\ Cardinality(C18_DotsOf(particles')) >= 30
          /\ Cardinality(C18_StarsOf(particles')) >= 70
          /\ \A i \in DOMAIN particles' :
               \E k \in DOMAIN frame' :
                 frame'[k].op = "arc" /\ frame'[k].i = i]_vars

\* only the load script's frame has been drawn, on the smallest population
C18_Witness ==
  /\ Running /\ ticks = 0 /\ resizes > 0 /\ mouseX # 0
  /\ Cardinality(Dots) = 30 /\ Cardinality(Stars) = 70
  /\ Cardinality(DotArcs) = 30 /\ Cardinality(StarArcs) = 140

(***************************************************************************)
(* C19.  Dust wraparound never ping-pongs.  Within one step at most one    *)
(* wrap rule fires per axis: a coordinate the low-side rule sent to        *)
(* size+20 does not pass the high-side test, and one the high-side rule    *)
(* sent to -20 does not pass the low-side test, for sizes from 0 up.  With *)
(* the size unchanged, a coordinate wrapped in one step is only advanced   *)
(* by its velocity in the next step.                                       *)
(***************************************************************************)
C19_Low(v) == v < -(50 * PX)
C19_High(v, size) == v > (size + 50) * PX

C19_AxisOnce(old, vel, size, out) ==
  /\ C19_Low(old + vel) => (out = (size + 20) * PX /\ ~C19_High(out, size))
  /\ C19_High(old + vel, size) => (out = -(20 * PX) /\ ~C19_Low(out))

C19_AxisNext(old, vel, size, out, out2) ==
  (C19_Low(old + vel) \/ C19_High(old + vel, size)) =>
     /\ out2 = out + vel
     /\ ~C19_Low(out + vel) /\ ~C19_High(out + vel, size)

C19_NoPingPong ==
  /\ probe.done =>
       /\ C19_AxisOnce(probe.p.x, probe.p.vx, probe.w, probe.out.x)
       /\ C19_AxisOnce(probe.p.y, probe.p.vy, probe.h, probe.out.y)
  /\ probe.done2 =>
       /\ C19_AxisNext(probe.p.x, probe.p.vx, probe.w, probe.out.x,
                       probe.out2.x)
       /\ C19_AxisNext(probe.p.y, probe.p.vy, probe.h, probe.out.y,
                       probe.out2.y)

\* on a canvas of size 0, x was wrapped by the low-side rule and y by the
\* high-side rule in the first step, and both only moved in the second
C19_Witness ==
  /\ probe.done2 /\ probe.w = 0 /\ probe.h = 0
  /\ C19_Low(probe.p.x + probe.p.vx) /\ probe.p.vx < 0
  /\ probe.out.x = 20 * PX /\ probe.out2.x = 20 * PX + probe.p.vx
  /\ C19_High(probe.p.y + probe.p.vy, 0) /\ probe.p.vy > 0
  /\ probe.out.y = -(20 * PX) /\ probe.out2.y = -(20 * PX) + probe.p.vy

(***************************************************************************)
(* C14.  The theme is persistent.  On a loaded page the stored 'theme'     *)
(* value is 'light' exactly when the body carries the 'light' class, and   *)
(* the toggle shows the sun for light and the moon for dark; a reload      *)
(* brings the page up with the body class and icon it had after the last   *)
(* click.                                                                  *)
(***************************************************************************)
C14_Consistent ==
  theme.phase = "running" =>
    /\ (theme.stored = "light") <=> theme.bodyLight
    /\ theme.icon = (IF theme.bodyLight THEN "sun" ELSE "moon")

C14_ReloadStep == theme'.reloads = theme.reloads + 1

C14_ThemePersistent ==
  /\ []C14_Consistent
  /\ [][(C14_ReloadStep /\ theme.clicks > 0) =>
          /\ theme'.bodyLight = theme.bodyLight
          /\ theme'.icon = theme.icon
          /\ theme'.stored = theme.stored]_vars

\* a page first loaded dark was clicked into light an odd number of times
\* and then reloaded: it came up light, with the sun
C14_Witness ==
  /\ theme.phase = "running" /\ theme.last = "reload"
  /\ theme.clicks = 3 /\ theme.reloads = 2
  /\ theme.bodyLight /\ theme.icon = "sun" /\ theme.stored = "light"

\* the same for dark: clicked back into dark, reloaded, came up dark
C14_WitnessDark ==
  /\ theme.phase = "running" /\ theme.last = "reload"
  /\ theme.clicks = 2 /\ theme.stored = "dark"
  /\ ~theme.bodyLight /\ theme.icon = "moon"

(***************************************************************************)
(* C15.  From a mouseenter on an interactive element until the matching    *)
(* mouseleave the follower's transform carries scale(1.45), whatever the   *)
(* interleaving of followLoop frames with the two handlers; after the      *)
(* mouseleave the enlargement is gone.                                     *)
(***************************************************************************)
C15_EnlargedWhileHovering ==
  cursor.phase = "running" =>
    /\ cursor.hover => cursor.transform.scales = 1
    /\ ~cursor.hover => cursor.transform.scales = 0

(***************************************************************************)
(* C16.  The typewriter loops forever over its words.  The character index *)
(* stays between 0 and the length of the current word and the shown text   *)
(* is the prefix of that length; a run of typeLoop types one character     *)
(* more up to the full word, then erases one character at a time down to   *)
(* empty, then goes to the next word cyclically; every word is shown in    *)
(* full infinitely often; exactly one timer is pending at any time.        *)
(***************************************************************************)
C16_Word == words[typer.wIdx + 1]

C16_Shape ==
  typer.phase = "running" =>
    /\ typer.wIdx \in 0 .. Len(words) - 1
    /\ 0 <= typer.ch /\ typer.ch <= Len(C16_Word)
    /\ typer.text = SubSeq(C16_Word, 1, typer.ch)
    /\ Len(typer.timers) = 1

C16_Step ==
  (typer.phase = "running" /\ typer' # typer) =>
    IF typer.direction = 1
    THEN /\ typer'.ch = typer.ch + 1
         /\ typer'.wIdx = typer.wIdx
         /\ typer'.direction = (IF typer'.ch = Len(C16_Word) THEN -1 ELSE 1)
    ELSE /\ typer'.ch = typer.ch - 1
         /\ IF typer'.ch = 0
            THEN /\ typer'.wIdx = (typer.wIdx + 1) % Len(words)
                 /\ typer'.direction = 1
            ELSE /\ typer'.wIdx = typer.wIdx
                 /\ typer'.direction = -1

C16_TypewriterLoops ==
  /\ []C16_Shape
  /\ [][C16_Step]_vars
  /\ []<>(typer.phase = "running" /\ typer.text = words[1])
  /\ []<>(typer.phase = "running" /\ typer.text = words[2])
  /\ []<>(typer.phase = "running" /\ typer.text = words[3])

\* the third word stands in full, the hold timer pending, the first two
\* words typed and erased before it
C16_Witness ==
  /\ typer.phase = "running" /\ typer.wIdx = 2
  /\ typer.text = words[3] /\ typer.ch = Len(words[3])
  /\ typer.direction = -1 /\ typer.timers = <<HoldDelay>>

\* the second word is being erased: the erase timer is the one pending
C16_WitnessErasing ==
  /\ typer.phase = "running" /\ typer.wIdx = 1 /\ typer.direction = -1
  /\ typer.ch = 1 /\ typer.text = <<"I">> /\ typer.timers = <<EraseDelay>>

====
